---- MODULE Spec2Model ----
(***************************************************************************)
(* Model of config/tmux/src/.config/tmux/tminus.py: the tmux status-line   *)
(* countdown to the next February 27.  The script is one straight-line     *)
(* run: read the clock, resolve the target year, test for the birthday,    *)
(* compute the whole seconds left, decompose them and print one line.      *)
(*                                                                         *)
(* A datetime is the record of its seven fields; a timedelta is the        *)
(* normalised triple (days, seconds, microseconds) that Python keeps.      *)
(* Microsecond totals of a year do not fit TLC's integers, so every        *)
(* computation is done on the normalised triple, as datetime does.         *)
(* The years drawn for `now` lie inside datetime's range with room for     *)
(* year + 1 (datetime.MAXYEAR is 9999); the model does not cover the       *)
(* constructor raising ValueError for year 10000.                          *)
(***************************************************************************)
EXTENDS Integers, Sequences, FiniteSets, TLC

VARIABLES pc, now, target_date, total_seconds, days, hours, minutes, seconds, stdout

vars == <<pc, now, target_date, total_seconds, days, hours, minutes, seconds, stdout>>

(* ------------------------------ bounds -------------------------------- *)
FirstYear == 2023
YearSpan == 3
MaxSmallSeconds == 4000
SampleCount == 3600

Years == FirstYear .. (FirstYear + YearSpan - 1)
ClockHours == {0, 12, 23}
ClockMinutes == {0, 59}
ClockSeconds == {0, 59}
ClockMicros == {0, 1, 500000, 999999}

(* The value of a name that has not been assigned yet. *)
Unset == <<>>

(* ------------------------- datetime arithmetic ------------------------ *)
IsLeap(y) == (y % 4 = 0) /\ ((y % 100 # 0) \/ (y % 400 = 0))

DaysInMonth(y, m) ==
    IF m = 2 THEN (IF IsLeap(y) THEN 29 ELSE 28)
    ELSE IF m \in {4, 6, 9, 11} THEN 30 ELSE 31

DaysBeforeYear(y) ==
    LET p == y - 1 IN p * 365 + (p \div 4) - (p \div 100) + (p \div 400)

RECURSIVE DaysBeforeMonth(_, _)
DaysBeforeMonth(y, m) ==
    IF m = 1 THEN 0 ELSE DaysBeforeMonth(y, m - 1) + DaysInMonth(y, m - 1)

(* date.toordinal() *)
ToOrdinal(d) == DaysBeforeYear(d.year) + DaysBeforeMonth(d.year, d.month) + d.day

(* datetime(year, month, day): the time fields default to zero. *)
Datetime(y, m, d) ==
    [year |-> y, month |-> m, day |-> d,
     hour |-> 0, minute |-> 0, second |-> 0, microsecond |-> 0]

(* datetime.date() *)
DateOf(d) == <<d.year, d.month, d.day>>

FieldsOf(d) == <<d.year, d.month, d.day, d.hour, d.minute, d.second, d.microsecond>>

RECURSIVE LexGreater(_, _)
LexGreater(a, b) ==
    IF a = <<>> THEN FALSE
    ELSE IF Head(a) # Head(b) THEN Head(a) > Head(b)
    ELSE LexGreater(Tail(a), Tail(b))

(* datetime.__gt__: field by field, most significant first. *)
DatetimeGT(a, b) == LexGreater(FieldsOf(a), FieldsOf(b))

(* timedelta(days, seconds, microseconds): carries into the larger unit so *)
(* that 0 <= seconds < 86400 and 0 <= microseconds < 1000000.              *)
Timedelta(d, s, us) ==
    LET us2 == us % 1000000
        s1  == s + ((us - us2) \div 1000000)
        s2  == s1 % 86400
        d2  == d + ((s1 - s2) \div 86400)
    IN  [days |-> d2, seconds |-> s2, microseconds |-> us2]

SecondOfDay(d) == d.second + d.minute * 60 + d.hour * 3600

(* datetime.__sub__ *)
DatetimeSubReversed(a, b) ==
    Timedelta(ToOrdinal(b) - ToOrdinal(a),
              SecondOfDay(b) - SecondOfDay(a),
              b.microsecond - a.microsecond)

DatetimeSub(a, b) ==
    Timedelta(ToOrdinal(a) - ToOrdinal(b),
              SecondOfDay(a) - SecondOfDay(b),
              a.microsecond - b.microsecond)

(* int(delta.total_seconds()): the seconds as a real number, truncated     *)
(* toward zero.  With W whole seconds and a microsecond part in [0, 1),    *)
(* the value lies in [W, W + 1): W if it is not negative, else its ceiling.*)
IntTotalSecondsRounded(td) ==
    LET W == td.days * 86400 + td.seconds
    IN  IF td.microseconds >= 500000 THEN W + 1 ELSE W

IntTotalSeconds(td) ==
    LET W == td.days * 86400 + td.seconds
    IN  IF W >= 0 \/ td.microseconds = 0 THEN W ELSE W + 1

(* ----------------------------- the script ----------------------------- *)
(* Every instant datetime.now() is drawn from. *)
Instants ==
    { [year |-> y, month |-> m, day |-> d,
       hour |-> h, minute |-> mi, second |-> s, microsecond |-> us] :
        y \in Years, m \in 1..12, d \in 1..31,
        h \in ClockHours, mi \in ClockMinutes, s \in ClockSeconds, us \in ClockMicros }

ValidInstants == { i \in Instants : i.day <= DaysInMonth(i.year, i.month) }

(* line 7: datetime(birthday_year, 2, 27) *)
Birthday(year) == Datetime(year, 2, 27)

(* line 10: now > target_date *)
BirthdayPassedReversed(n, t) == DatetimeGT(t, n)

BirthdayPassedOrNow(n, t) == DatetimeGT(n, t) \/ FieldsOf(n) = FieldsOf(t)

BirthdayPassedByDate(n, t) == LexGreater(DateOf(n), DateOf(t))

BirthdayPassed(n, t) == DatetimeGT(n, t)

(* line 11: datetime(birthday_year + 1, 2, 27) *)
NextBirthdaySameYear(year) == Birthday(year)

NextBirthday(year) == Birthday(year + 1)

(* lines 23-26 *)
DaysOfPerHour(S) == S \div 3600

DaysOf(S) == S \div 86400

HoursOfNoMod(S) == S \div 3600

HoursOf(S) == (S % 86400) \div 3600

MinutesOf(S) == (S % 3600) \div 60

SecondsOfHour(S) == S % 3600

SecondsOf(S) == S % 60

TZero == <<"T-ZERO">>

(* line 28: the f-string, kept as its literal prefix and the four printed  *)
(* integers (decimal, no padding).                                         *)
TMinus(D, H, M, S) == <<"T-MINUS", D, H, M, S>>

Init ==
    /\ pc = "read_clock"
    /\ now = Unset
    /\ target_date = Unset
    /\ total_seconds = Unset
    /\ days = Unset
    /\ hours = Unset
    /\ minutes = Unset
    /\ seconds = Unset
    /\ stdout = <<>>

(* line 3 *)
ReadClock ==
    /\ pc = "read_clock"
    /\ \E n \in ValidInstants : now' = n
    /\ pc' = "this_year"
    /\ UNCHANGED <<target_date, total_seconds, days, hours, minutes, seconds, stdout>>

(* lines 6-7 *)
TargetThisYear ==
    /\ pc = "this_year"
    /\ target_date' = Birthday(now.year)
    /\ pc' = "resolve"
    /\ UNCHANGED <<now, total_seconds, days, hours, minutes, seconds, stdout>>

(* lines 10-11 *)
ResolveYear ==
    /\ pc = "resolve"
    /\ target_date' = IF BirthdayPassed(now, target_date)
                      THEN NextBirthday(now.year)
                      ELSE target_date
    /\ pc' = "check_today"
    /\ UNCHANGED <<now, total_seconds, days, hours, minutes, seconds, stdout>>

(* lines 14-18 *)
CheckToday ==
    /\ pc = "check_today"
    /\ IF DateOf(now) = DateOf(target_date)
       THEN /\ stdout' = Append(stdout, TZero)
            /\ pc' = "done"
            /\ UNCHANGED total_seconds
       ELSE /\ total_seconds' = IntTotalSeconds(DatetimeSub(target_date, now))
            /\ pc' = "countdown"
            /\ UNCHANGED stdout
    /\ UNCHANGED <<now, target_date, days, hours, minutes, seconds>>

(* lines 20-28 *)
Countdown ==
    /\ pc = "countdown"
    /\ IF total_seconds < 0
       THEN /\ stdout' = Append(stdout, TZero)
            /\ UNCHANGED <<days, hours, minutes, seconds>>
       ELSE /\ days' = DaysOf(total_seconds)
            /\ hours' = HoursOf(total_seconds)
            /\ minutes' = MinutesOf(total_seconds)
            /\ seconds' = SecondsOf(total_seconds)
            /\ stdout' = Append(stdout, TMinus(days', hours', minutes', seconds'))
    /\ pc' = "done"
    /\ UNCHANGED <<now, target_date, total_seconds>>

Next == ReadClock \/ TargetThisYear \/ ResolveYear \/ CheckToday \/ Countdown

Spec == Init /\ [][Next]_vars

(* The decomposition of lines 20-28 on its own, over total_seconds values  *)
(* the clock need not produce: every small value and a spread of samples   *)
(* reaching past a year.                                                   *)
SampleStride == 9973

TotalSecondsInputs ==
    (0 .. MaxSmallSeconds) \cup { k * SampleStride : k \in 0 .. SampleCount }
        \cup { k * 86400 - 1 : k \in 1 .. 400 } \cup { k * 86400 : k \in 1 .. 400 }

DecompInit ==
    /\ pc = "countdown"
    /\ now = Unset
    /\ target_date = Unset
    /\ total_seconds \in TotalSecondsInputs
    /\ days = Unset
    /\ hours = Unset
    /\ minutes = Unset
    /\ seconds = Unset
    /\ stdout = <<>>

DecompNext == Countdown

DecompSpec == DecompInit /\ [][DecompNext]_vars

(* ------------------------------ claims -------------------------------- *)
Resolved == pc \in {"check_today", "countdown", "done"}

Printed == pc = "done" /\ Len(stdout) = 1

PrintedTZero == Printed /\ stdout[1][1] = "T-ZERO"

PrintedTMinus == Printed /\ stdout[1][1] = "T-MINUS"

OnBirthday == now.month = 2 /\ now.day = 27

AtMidnight == now.hour = 0 /\ now.minute = 0 /\ now.second = 0 /\ now.microsecond = 0

Feb27Midnight(y) ==
    [year |-> y, month |-> 2, day |-> 27,
     hour |-> 0, minute |-> 0, second |-> 0, microsecond |-> 0]

(* C1: on every instant of February 27, whatever the time of day, the run  *)
(* prints exactly T-ZERO.                                                  *)
C1_BirthdayAllDayTZero == (pc = "done" /\ OnBirthday) => stdout = <<TZero>>

C3_BeforeBirthdayThisYear ==
    (Resolved /\ (now.month = 1 \/ (now.month = 2 /\ now.day < 27)))
        => target_date = Feb27Midnight(now.year)

C3_Witness ==
    /\ pc = "done"
    /\ now.month = 2 /\ now.day = 26
    /\ now.hour = 23 /\ now.minute = 59 /\ now.second = 59 /\ now.microsecond = 999999
    /\ target_date.year = now.year

(* The whole seconds from n to the midnight t, truncated toward zero,      *)
(* counted from the calendar: W seconds less a microsecond part in [0, 1). *)
WholeSecondsUntil(n, t) ==
    LET W == (ToOrdinal(t) - ToOrdinal(n)) * 86400 - SecondOfDay(n)
    IN  IF W > 0 /\ n.microsecond > 0 THEN W - 1 ELSE W

(* C4: the values of a printed T-MINUS line add up, as                     *)
(* D*86400 + H*3600 + M*60 + S, to the whole seconds (truncated toward     *)
(* zero) between now and the target resolved for that same now.            *)
C4_PrintedValuesSumToDelta ==
    PrintedTMinus =>
        stdout[1][2] * 86400 + stdout[1][3] * 3600 + stdout[1][4] * 60 + stdout[1][5]
            = WholeSecondsUntil(now, target_date)

C4_Witness ==
    /\ PrintedTMinus
    /\ now.microsecond = 999999
    /\ stdout[1][2] > 0 /\ stdout[1][3] > 0 /\ stdout[1][4] > 0 /\ stdout[1][5] > 0

(* C5: for every total_seconds S >= 0 the decomposed days, hours, minutes  *)
(* and seconds rebuild S, with days >= 0, hours < 24, minutes < 60 and     *)
(* seconds < 60.                                                           *)
C5_DecompositionLaw ==
    (pc = "done" /\ total_seconds >= 0) =>
        /\ days * 86400 + hours * 3600 + minutes * 60 + seconds = total_seconds
        /\ days >= 0
        /\ 0 <= hours /\ hours < 24
        /\ 0 <= minutes /\ minutes < 60
        /\ 0 <= seconds /\ seconds < 60

C5_Witness ==
    /\ pc = "done"
    /\ days > 366 /\ hours = 23 /\ minutes = 59 /\ seconds = 59

WellFormedLine(line) ==
    \/ Len(line) = 1 /\ line[1] = "T-ZERO"
    \/ /\ Len(line) = 5
       /\ line[1] = "T-MINUS"
       /\ line[2] \in Nat
       /\ line[3] \in 0 .. 23
       /\ line[4] \in 0 .. 59
       /\ line[5] \in 0 .. 59

March1st2025 ==
    [year |-> 2025, month |-> 3, day |-> 1,
     hour |-> 0, minute |-> 0, second |-> 0, microsecond |-> 0]

(* C7 as stated: with now = 2025-03-01 00:00:00 the target resolves to     *)
(* 2026-02-27 00:00:00 and a T-MINUS line with 361 or 362 days is printed. *)
C7_Days361Or362 ==
    (pc = "done" /\ now = March1st2025) =>
        /\ target_date = Feb27Midnight(2026)
        /\ PrintedTMinus
        /\ stdout[1][2] \in {361, 362}

(* C7 as amended: with now = 2025-03-01 00:00:00 the target resolves to    *)
(* 2026-02-27 00:00:00 and a T-MINUS line with 363 days is printed.        *)
C7_Days363 ==
    (pc = "done" /\ now = March1st2025) =>
        /\ target_date = Feb27Midnight(2026)
        /\ PrintedTMinus
        /\ stdout[1][2] = 363

C7_Witness == pc = "done" /\ now = March1st2025 /\ Len(stdout) = 1

(* C8: when now is exactly February 27 00:00:00.000000 the strict test     *)
(* leaves the target in now.year, the dates are equal and T-ZERO is        *)
(* printed.                                                                *)
C8_MidnightBirthdayTZero ==
    /\ (Resolved /\ OnBirthday /\ AtMidnight) => target_date = Feb27Midnight(now.year)
    /\ (pc = "done" /\ OnBirthday /\ AtMidnight) => stdout = <<TZero>>

C8_Witness == pc = "done" /\ now = Feb27Midnight(2025) /\ stdout = <<TZero>>

====
